---- MODULE Spec2Model ----
(***************************************************************************)
(* A model of the CPPN graph (the acyclic network container specialised    *)
(* with CppnNode payloads) and of the CPPN evaluator of src/src/cppn.rs.   *)
(*                                                                         *)
(* Node indices are dense and 0-based, as in the source; the node list is  *)
(* a TLA+ sequence, so node i is nodes[i + 1].  Signals and weights are    *)
(* integers (1.0 is 1).                                                    *)
(***************************************************************************)
EXTENDS Integers, Sequences, FiniteSets, TLC

VARIABLES
    nodes,      \* the graph's node list: per node its CppnNode and its forward links
    cppn,       \* Some(the evaluator bound to the graph, struct Cppn), or NoCppn
    panicked,   \* TRUE once an operation has aborted (panic!/assert!)
    checked,    \* TRUE while every add_link so far was preceded by !link_would_cycle
    ret,        \* the last call whose result is observed: [op, arg, value], or NoRet
    substrate   \* struct Substrate: its layers and its layer links

vars == <<nodes, cppn, panicked, checked, ret, substrate>>

\* Option<T>: None is the empty sequence, Some(x) the one-element sequence.
None == <<>>
Some(x) == <<x>>

NoCppn == None
NoRet == [op |-> "none", arg |-> <<>>, value |-> None]
\* Substrate::new()
substrate_new == [layers |-> <<>>, layer_links |-> <<>>]
\* What is known of a process or calculate call that panicked on the flat
\* input list: it returned nothing.
Panic(flat) == [op |-> "panic", arg |-> flat, value |-> None]

\* ------------------------------------------------------------------ bounds

MaxNodes == 3
MaxLinks == 2
MaxFixtureLinks == 4
\* Passes of layout's fixed-point loop after which a call counts as not returning.
MaxPasses == 5
\* Nodes of a substrate over all its layers, and its layer links.
MaxSubstrateNodes == 2
MaxLayerLinks == 2
\* The layer links of a substrate walked with evaluators of either input count.
MaxArityLayerLinks == 1
\* The largest magnitude, in quarters of 1.0, an activation function is applied to.
MaxQuarters == 8

\* ------------------------------------------------------------- CPPN nodes

CppnNodeKind == {"Bias", "Input", "Output", "Hidden"}

GeometricActivationFunction == {"Linear", "LinearBipolarClipped", "Absolute", "Constant1"}

\* The node payloads add_node is called with.
CppnNode ==
    { [kind |-> "Input",  activation_function |-> "Linear"],
      [kind |-> "Bias",   activation_function |-> "Linear"],
      [kind |-> "Hidden", activation_function |-> "Linear"],
      [kind |-> "Output", activation_function |-> "Linear"],
      [kind |-> "Output", activation_function |-> "Constant1"] }

\* The link weights add_link is called with.
Weights == {2}

\* The scalars process and calculate are called with.
InputValues == {-2, 1}

\* Mutant: only Input nodes reject incoming links.
accept_incoming_links_bias(node_type) == node_type.kind # "Input"

accept_incoming_links(node_type) ==
    CASE node_type.kind \in {"Hidden", "Output"} -> TRUE
      [] node_type.kind \in {"Input", "Bias"}    -> FALSE

\* Mutant: Output nodes accept outgoing links too.
accept_outgoing_links_any(node_type) == TRUE

accept_outgoing_links(node_type) ==
    CASE node_type.kind \in {"Hidden", "Input", "Bias"} -> TRUE
      [] node_type.kind = "Output"                      -> FALSE

is_input_node(node_type) == node_type.kind = "Input"

is_output_node(node_type) == node_type.kind = "Output"

\* ------------------------------------------------------------- the graph

NodeIndices(ns) == 0 .. (Len(ns) - 1)

node(ns, i) == ns[i + 1]

node_type(ns, i) == ns[i + 1].node_type

\* The forward links of node i, in the order each_active_forward_link_of_node
\* visits them: a sequence of [target, weight].
forward_links(ns, i) == ns[i + 1].links

RECURSIVE SumLen(_, _)
SumLen(ns, k) == IF k = 0 THEN 0 ELSE Len(ns[k].links) + SumLen(ns, k - 1)

link_count(ns) == SumLen(ns, Len(ns))

in_degree(ns, i) ==
    LET RECURSIVE Cnt(_)
        Cnt(k) == IF k = 0 THEN 0
                  ELSE Cardinality({p \in 1 .. Len(ns[k].links) : ns[k].links[p].target = i})
                       + Cnt(k - 1)
    IN Cnt(Len(ns))

Successors(ns, i) == {forward_links(ns, i)[p].target : p \in 1 .. Len(forward_links(ns, i))}

valid_link(ns, src, dst) ==
    IF src = dst THEN "Loops are not allowed"
    ELSE IF ~accept_outgoing_links(node_type(ns, src)) THEN "Node does not allow outgoing links"
    ELSE IF ~accept_incoming_links(node_type(ns, dst)) THEN "Node does not allow incoming links"
    ELSE "Ok"

\* The depth-first walk of the cycle detector: an explicit stack and a set of
\* visited nodes; `pops` counts the nodes taken from the stack.
RECURSIVE CycleWalk(_, _, _, _, _)
CycleWalk(ns, src, stack, seen, pops) ==
    IF stack = <<>> THEN [cycles |-> FALSE, pops |-> pops]
    ELSE LET u    == stack[Len(stack)]
             rest == SubSeq(stack, 1, Len(stack) - 1)
             RECURSIVE Push(_, _, _)
             Push(p, st, sn) ==
                 IF p > Len(forward_links(ns, u)) THEN [stack |-> st, seen |-> sn]
                 ELSE LET w == forward_links(ns, u)[p].target
                      IN IF w \in sn THEN Push(p + 1, st, sn)
                         ELSE Push(p + 1, Append(st, w), sn \cup {w})
             nxt  == Push(1, rest, seen)
         IN IF u = src THEN [cycles |-> TRUE, pops |-> pops + 1]
            ELSE CycleWalk(ns, src, nxt.stack, nxt.seen, pops + 1)

\* Mutant: only the reflexive case is detected.
link_would_cycle_reflexive(ns, src, dst) == src = dst

\* Mutant: the walk stops at the direct successors of dst.
link_would_cycle_direct(ns, src, dst) == src = dst \/ src \in Successors(ns, dst)

link_would_cycle(ns, src, dst) ==
    IF src = dst THEN TRUE
    ELSE CycleWalk(ns, src, <<dst>>, {dst}, 0).cycles

\* ------------------------------------------- the random edge picker

\* The symmetric adjacency bit-matrix: every existing link and its reverse.
adj_matrix(ns) ==
    UNION { { <<i, j>>, <<j, i>> } :
              <<i, j>> \in UNION { {i} \X Successors(ns, i) : i \in NodeIndices(ns) } }

\* Mutant: the picker skips the cycle walk.
candidate_no_walk(ns, adj, i, j) ==
    /\ i # j
    /\ <<i, j>> \notin adj
    /\ valid_link(ns, i, j) = "Ok"

\* The test the picker applies to a pair (i, j) in its double loop.
candidate(ns, adj, i, j) ==
    /\ i # j
    /\ <<i, j>> \notin adj
    /\ valid_link(ns, i, j) = "Ok"
    /\ ~link_would_cycle(ns, i, j)

\* The pairs that pass the test.
candidates(ns, adj) ==
    UNION { IF candidate(ns, adj, p[1], p[2]) THEN {p} ELSE {} :
              p \in NodeIndices(ns) \X NodeIndices(ns) }

\* The outcomes of rng.shuffle on the index list 0 .. n-1: position k of the
\* shuffled list holds p[k].
Shuffles(ns) == Permutations(NodeIndices(ns))

\* The inner loop over one shuffled edge_order: the first j that passes, or None.
RECURSIVE scan_row(_, _, _, _)
scan_row(passing, i, edge_order, k) ==
    IF k \notin DOMAIN edge_order THEN None
    ELSE IF <<i, edge_order[k]>> \in passing THEN Some(<<i, edge_order[k]>>)
    ELSE scan_row(passing, i, edge_order, k + 1)

\* The results of the inner loop per row i, as pairs <<i, result>>; edge_order
\* is shuffled anew for every row.
row_results(ns, passing) ==
    { <<i, scan_row(passing, i, edge_order, 0)>> :
        i \in NodeIndices(ns), edge_order \in Shuffles(ns) }

\* Mutant: the outer loop gives up after its first row.
scan_rows_first_row(rows, node_order, k) ==
    IF k \notin DOMAIN node_order THEN {None}
    ELSE { x[2] : x \in { y \in rows : y[1] = node_order[k] } }

\* What the outer loop can return from position k of node_order on.
RECURSIVE scan_rows(_, _, _)
scan_rows(rows, node_order, k) ==
    IF k \notin DOMAIN node_order THEN {None}
    ELSE LET r == { x[2] : x \in { y \in rows : y[1] = node_order[k] } }
         IN (r \ {None}) \cup (IF None \in r THEN scan_rows(rows, node_order, k + 1) ELSE {})

\* The outer loop over every shuffled node_order.
scan_all(ns, rows) == UNION { scan_rows(rows, node_order, 0) : node_order \in Shuffles(ns) }

\* Every value find_random_unconnected_link_no_cycle can return on this graph.
find_random_unconnected_link_no_cycle(ns) ==
    scan_all(ns, row_results(ns, candidates(ns, adj_matrix(ns))))

\* ------------------------------------------------- activation functions

bipolar_clip(x) == IF x > 1 THEN 1 ELSE IF x < -1 THEN -1 ELSE x

calculate_activation(af, x) ==
    CASE af = "Linear"               -> x
      [] af = "LinearBipolarClipped" -> bipolar_clip(x)
      [] af = "Absolute"             -> IF x < 0 THEN -x ELSE x
      [] af = "Constant1"            -> 1

\* ActivationFunction for CppnNode: every kind delegates to the carried function.
node_calculate(nt, input) == calculate_activation(nt.activation_function, input)

\* ------------------------------- activation functions on fractional values
\*
\* An f64 is held in thousandths: Milli stands for 1.0.  The arguments are the
\* multiples of a quarter, and f64::exp, f64::sin and f64::cos are tabulated at
\* the arguments the functions pass them, rounded to the nearest thousandth.

Milli == 1000
\* The step between two arguments.
Quarter == Milli \div 4
\* std::f64::consts::PI
PI == 3142

ActivationFunctions ==
    { "Linear", "LinearBipolarClipped", "Absolute", "Gaussian", "BipolarGaussian",
      "BipolarSigmoid", "Sine", "Cosine", "Constant1" }

\* The functions whose result passes through bipolar_debug_check.
BipolarFunctions ==
    { "LinearBipolarClipped", "BipolarGaussian", "BipolarSigmoid", "Sine", "Cosine" }

quarters(x) == x \div Quarter

\* (-((x * 2.5).powi(2))).exp() for x = 0, 1/4, 2/4, ...; the function is even.
exp_neg_square(x) ==
    LET t == <<1000, 677, 210, 30, 2>>
        q == IF x < 0 THEN quarters(-x) ELSE quarters(x)
    IN IF q + 1 <= Len(t) THEN t[q + 1] ELSE 0

\* (-4.9 * x).exp() for x = -10/4 .. 10/4.
exp_neg_steep(x) ==
    LET t == <<208981289, 61389863, 18033745, 5297551, 1556197, 457145, 134290,
               39449, 11588, 3404, 1000, 294, 86, 25, 7, 2, 1, 0, 0, 0, 0>>
    IN t[quarters(x) + 11]

\* (2.0 * PI * x).sin(): a quarter is a quarter turn.
sin_turns(x) == <<0, 1000, 0, -1000>>[(quarters(x) % 4) + 1]

\* x.cos() for x = 0, 1/4, ... 10/4 radians; the function is even.
cos(x) ==
    LET t == <<1000, 969, 878, 732, 540, 315, 71, -178, -416, -628, -801>>
        q == IF x < 0 THEN quarters(-x) ELSE quarters(x)
    IN t[q + 1]

\* bipolar_debug_check hands x back; `failed` tells whether its debug
\* assertion does not hold.
bipolar_debug_check(x) == [value |-> x, failed |-> ~(x >= -Milli /\ x <= Milli)]

unchecked(x) == [value |-> x, failed |-> FALSE]

\* Mutant: only the upper bound is clipped.
bipolar_clip_upper(x) == IF x > Milli THEN Milli ELSE x

\* bipolar_clip on thousandths.
bipolar_clip_milli(x) == IF x > Milli THEN Milli ELSE IF x < -Milli THEN -Milli ELSE x

\* The Cosine arm: 2.0 * PI * x.cos().
cosine(x) == (2 * PI * cos(x)) \div Milli

\* ActivationFunction for GeometricActivationFunction: calculate.
geometric_calculate(af, x) ==
    CASE af = "Linear"               -> unchecked(x)
      [] af = "LinearBipolarClipped" -> bipolar_debug_check(bipolar_clip_milli(x))
      [] af = "Absolute"             -> unchecked(IF x < 0 THEN -x ELSE x)
      [] af = "Gaussian"             -> unchecked(exp_neg_square(x))
      [] af = "BipolarGaussian"      -> bipolar_debug_check(2 * exp_neg_square(x) - Milli)
      [] af = "BipolarSigmoid"       ->
           bipolar_debug_check(((2 * Milli * Milli) \div (Milli + exp_neg_steep(x))) - Milli)
      [] af = "Sine"                 -> bipolar_debug_check(sin_turns(x))
      [] af = "Cosine"               -> bipolar_debug_check(cosine(x))
      [] af = "Constant1"            -> unchecked(Milli)

\* --------------------------------------------------------- the evaluator

\* each_node_with_index visits the nodes in index order.
node_index_list(ns) == [k \in 1 .. Len(ns) |-> k - 1]

\* Mutant: the start nodes are the Input and Bias nodes.
cppn_new_by_kind(ns) ==
    LET IsIn(i)    == is_input_node(node_type(ns, i))
        IsOut(i)   == is_output_node(node_type(ns, i))
        IsStart(i) == node_type(ns, i).kind \in {"Input", "Bias"}
    IN [ inputs           |-> SelectSeq(node_index_list(ns), IsIn),
         outputs          |-> SelectSeq(node_index_list(ns), IsOut),
         start_nodes      |-> SelectSeq(node_index_list(ns), IsStart),
         nodes_bfs        |-> <<>>,
         seen_bfs         |-> {},
         incoming_signals |-> [i \in 1 .. Len(ns) |-> 0] ]

cppn_new(ns) ==
    LET IsIn(i)    == is_input_node(node_type(ns, i))
        IsOut(i)   == is_output_node(node_type(ns, i))
        IsStart(i) == in_degree(ns, i) = 0
    IN [ inputs           |-> SelectSeq(node_index_list(ns), IsIn),
         outputs          |-> SelectSeq(node_index_list(ns), IsOut),
         start_nodes      |-> SelectSeq(node_index_list(ns), IsStart),
         nodes_bfs        |-> <<>>,
         seen_bfs         |-> {},
         incoming_signals |-> [i \in 1 .. Len(ns) |-> 0] ]

set_signal(c, node_idx, value) ==
    [c EXCEPT !.incoming_signals[node_idx + 1] = value]

\* Mutant: the accumulators are not zeroed.
reset_signals_keep(c) == c

reset_signals(c) ==
    [c EXCEPT !.incoming_signals = [i \in DOMAIN c.incoming_signals |-> 0]]

\* Mutant: the target is pushed whether or not it has been seen.
RECURSIVE fan_out_unseen(_, _, _, _)
fan_out_unseen(c, links, p, output) ==
    IF p > Len(links) THEN c
    ELSE LET out_node == links[p].target
         IN fan_out_unseen([c EXCEPT !.incoming_signals[out_node + 1] = @ + links[p].weight * output,
                                     !.seen_bfs = @ \cup {out_node},
                                     !.nodes_bfs = Append(@, out_node)],
                           links, p + 1, output)

\* The closure passed to each_active_forward_link_of_node, applied to the
\* links of one node from position p on.
RECURSIVE fan_out(_, _, _, _)
fan_out(c, links, p, output) ==
    IF p > Len(links) THEN c
    ELSE LET out_node == links[p].target
             c1 == [c EXCEPT !.incoming_signals[out_node + 1] = @ + links[p].weight * output]
             c2 == IF out_node \notin c1.seen_bfs
                   THEN [c1 EXCEPT !.seen_bfs = @ \cup {out_node},
                                   !.nodes_bfs = Append(@, out_node)]
                   ELSE c1
         IN fan_out(c2, links, p + 1, output)

\* One iteration of the while-let loop: pop the last node of nodes_bfs.
propagate_step(c, ns) ==
    LET node_idx == c.nodes_bfs[Len(c.nodes_bfs)]
        popped   == [c EXCEPT !.nodes_bfs = SubSeq(@, 1, Len(@) - 1)]
        input    == c.incoming_signals[node_idx + 1]
        output   == node_calculate(node_type(ns, node_idx), input)
    IN fan_out(popped, forward_links(ns, node_idx), 1, output)

RECURSIVE propagate_signals(_, _)
propagate_signals(c, ns) ==
    IF c.nodes_bfs = <<>> THEN c ELSE propagate_signals(propagate_step(c, ns), ns)

RECURSIVE flatten(_)
flatten(chunks) == IF chunks = <<>> THEN <<>> ELSE Head(chunks) \o flatten(Tail(chunks))

\* Mutant: every scalar is written into the first input node.
RECURSIVE assign_inputs_first(_, _, _)
assign_inputs_first(c, flat, i) ==
    IF i >= Len(flat) THEN [cppn |-> c, panicked |-> FALSE]
    ELSE IF i >= Len(c.inputs) THEN [cppn |-> c, panicked |-> TRUE]
    ELSE assign_inputs_first(set_signal(c, c.inputs[1], flat[i + 1]), flat, i + 1)

\* The nested input loop of process over the flattened scalars from position
\* i on; indexing self.inputs out of bounds panics.
RECURSIVE assign_inputs(_, _, _)
assign_inputs(c, flat, i) ==
    IF i >= Len(flat) THEN [cppn |-> c, panicked |-> FALSE]
    ELSE IF i >= Len(c.inputs) THEN [cppn |-> c, panicked |-> TRUE]
    ELSE assign_inputs(set_signal(c, c.inputs[i + 1], flat[i + 1]), flat, i + 1)

RECURSIVE push_start_nodes(_, _)
push_start_nodes(c, k) ==
    IF k > Len(c.start_nodes) THEN c
    ELSE push_start_nodes([c EXCEPT !.nodes_bfs = Append(@, c.start_nodes[k]),
                                    !.seen_bfs = @ \cup {c.start_nodes[k]}], k + 1)

clear_bfs(c) == [c EXCEPT !.nodes_bfs = <<>>, !.seen_bfs = {}]

\* Mutant: the assertion on the number of scalars is dropped.
process_unasserted(c, ns, inputs) ==
    LET flat     == flatten(inputs)
        assigned == assign_inputs(reset_signals(c), flat, 0)
    IN IF assigned.panicked THEN assigned
       ELSE [cppn |-> propagate_signals(push_start_nodes(clear_bfs(assigned.cppn), 1), ns),
             panicked |-> FALSE]

process(c, ns, inputs) ==
    LET flat     == flatten(inputs)
        assigned == assign_inputs(reset_signals(c), flat, 0)
    IN IF assigned.panicked THEN assigned
       ELSE IF Len(flat) # Len(c.inputs) THEN [cppn |-> assigned.cppn, panicked |-> TRUE]
       ELSE [cppn |-> propagate_signals(push_start_nodes(clear_bfs(assigned.cppn), 1), ns),
             panicked |-> FALSE]

\* Mutant: the accumulated input is returned without the activation function.
read_output_raw(c, ns, nth_output) ==
    IF nth_output < Len(c.outputs)
    THEN Some(c.incoming_signals[c.outputs[nth_output + 1] + 1])
    ELSE None

read_output(c, ns, nth_output) ==
    IF nth_output < Len(c.outputs)
    THEN LET node_idx == c.outputs[nth_output + 1]
             input    == c.incoming_signals[node_idx + 1]
         IN Some(node_calculate(node_type(ns, node_idx), input))
    ELSE None

output_count(c) == Len(c.outputs)

input_count(c) == Len(c.inputs)

\* calculate's result once process has returned.
collect_outputs(c, ns) == [i \in 1 .. Len(c.outputs) |-> read_output(c, ns, i - 1)[1]]

\* ----------------------------------------------------------------- layout

\* Mutant: max_rank is the number of nodes.
initial_ranks_low(ns) ==
    LET max_rank == Len(ns)
    IN [k \in 1 .. Len(ns) |->
          IF is_input_node(ns[k].node_type) THEN 0
          ELSE IF is_output_node(ns[k].node_type) THEN max_rank
          ELSE 1]

\* The initial ranks of layout: 0 for inputs, max_rank for outputs, 1 otherwise.
initial_ranks(ns) ==
    LET max_rank == Len(ns) + 1
    IN [k \in 1 .. Len(ns) |->
          IF is_input_node(ns[k].node_type) THEN 0
          ELSE IF is_output_node(ns[k].node_type) THEN max_rank
          ELSE 1]

\* Mutant: a link between equal ranks is left alone.
relax_links_strict(r, index, links, p) ==
    IF \E q \in p .. Len(links) : r.ranks[links[q].target + 1] < r.ranks[index + 1]
    THEN [ranks |-> [k \in DOMAIN r.ranks |->
                       IF \E q \in p .. Len(links) :
                             links[q].target + 1 = k /\ r.ranks[k] < r.ranks[index + 1]
                       THEN r.ranks[index + 1] + 1 ELSE r.ranks[k]],
          changed |-> TRUE]
    ELSE r

\* Mutant: `changed` is set for every link looked at.
RECURSIVE relax_links_restless(_, _, _, _)
relax_links_restless(r, index, links, p) ==
    IF p > Len(links) THEN r
    ELSE LET src_rank == r.ranks[index + 1]
             dst      == links[p].target
             dst_rank == r.ranks[dst + 1]
         IN relax_links_restless(
               [ranks |-> IF dst_rank <= src_rank
                          THEN [r.ranks EXCEPT ![dst + 1] = src_rank + 1] ELSE r.ranks,
                changed |-> TRUE], index, links, p + 1)

\* The inner closure of layout over the forward links of node `index` from
\* position p on; r is the pair of `ranks` and `changed`.
RECURSIVE relax_links(_, _, _, _)
relax_links(r, index, links, p) ==
    IF p > Len(links) THEN r
    ELSE LET src_rank == r.ranks[index + 1]
             dst      == links[p].target
             dst_rank == r.ranks[dst + 1]
         IN IF dst_rank <= src_rank
            THEN relax_links([ranks |-> [r.ranks EXCEPT ![dst + 1] = src_rank + 1],
                              changed |-> TRUE], index, links, p + 1)
            ELSE relax_links(r, index, links, p + 1)

\* One pass of the loop body: each_node_with_index from node `index` on.
RECURSIVE relax_nodes(_, _, _)
relax_nodes(ns, r, index) ==
    IF index >= Len(ns) THEN r
    ELSE relax_nodes(ns, relax_links(r, index, forward_links(ns, index), 1), index + 1)

\* Mutant: the loop body runs once.
layout_loop_once(ns, ranks, passes) ==
    [ranks |-> relax_nodes(ns, [ranks |-> ranks, changed |-> FALSE], 0).ranks, returned |-> TRUE]

\* Mutant: the loop gives up after as many passes as the graph has nodes.
RECURSIVE layout_loop_capped(_, _, _)
layout_loop_capped(ns, ranks, passes) ==
    LET r == relax_nodes(ns, [ranks |-> ranks, changed |-> FALSE], 0)
    IN IF ~r.changed \/ passes + 1 >= Len(ns) THEN [ranks |-> r.ranks, returned |-> TRUE]
       ELSE layout_loop_capped(ns, r.ranks, passes + 1)

\* The loop of layout; `passes` counts the passes made so far.
RECURSIVE layout_loop(_, _, _)
layout_loop(ns, ranks, passes) ==
    LET r == relax_nodes(ns, [ranks |-> ranks, changed |-> FALSE], 0)
    IN IF ~r.changed THEN [ranks |-> r.ranks, returned |-> TRUE]
       ELSE IF passes + 1 >= MaxPasses THEN [ranks |-> r.ranks, returned |-> FALSE]
       ELSE layout_loop(ns, r.ranks, passes + 1)

layout(ns) == layout_loop(ns, initial_ranks(ns), 0)

\* ranks.iter().enumerate().map(|(nodei, &rank)| (rank, nodei))
rank_pairs(ranks) == [k \in 1 .. Len(ranks) |-> <<ranks[k], k - 1>>]

\* Insertion of p behind every element whose key is not greater: a stable sort.
RECURSIVE insert_by_key(_, _)
insert_by_key(sorted, p) ==
    IF sorted = <<>> THEN <<p>>
    ELSE IF p[1] < Head(sorted)[1] THEN <<p>> \o sorted
    ELSE <<Head(sorted)>> \o insert_by_key(Tail(sorted), p)

\* Mutant: the pairs stay in node order.
sort_by_key_unsorted(pairs, k, sorted) == pairs

\* pairs.sort_by_key(|p| p.0), from position k on.
RECURSIVE sort_by_key(_, _, _)
sort_by_key(pairs, k, sorted) ==
    IF k > Len(pairs) THEN sorted
    ELSE sort_by_key(pairs, k + 1, insert_by_key(sorted, pairs[k]))

reverse(seq) == [k \in 1 .. Len(seq) |-> seq[Len(seq) + 1 - k]]

\* The while-let loop of group_layers: pairs are popped from the back.
RECURSIVE collect_layers(_, _, _, _)
collect_layers(pairs, layers, layer, current_rank) ==
    IF pairs = <<>> THEN [layers |-> Append(layers, layer), panicked |-> FALSE]
    ELSE LET rank  == pairs[Len(pairs)][1]
             nodei == pairs[Len(pairs)][2]
             rest  == SubSeq(pairs, 1, Len(pairs) - 1)
         IN IF rank < current_rank THEN [layers |-> layers, panicked |-> TRUE]
            ELSE IF rank = current_rank
                 THEN collect_layers(rest, layers, Append(layer, nodei), current_rank)
                 ELSE collect_layers(rest, Append(layers, layer), <<nodei>>, rank)

\* layer.sort() on node indices.
RECURSIVE sort_layer(_, _, _)
sort_layer(layer, k, sorted) ==
    IF k > Len(layer) THEN sorted
    ELSE sort_layer(layer, k + 1,
                    SelectSeq(sorted, LAMBDA x : x <= layer[k]) \o <<layer[k]>>
                    \o SelectSeq(sorted, LAMBDA x : x > layer[k]))

\* Mutant: an empty rank list gives an empty list of layers.
group_layers_guarded(ns) ==
    LET l     == layout(ns)
        pairs == reverse(sort_by_key(rank_pairs(l.ranks), 1, <<>>))
    IN IF ~l.returned THEN [layers |-> <<>>, panicked |-> FALSE, returned |-> FALSE]
       ELSE IF pairs = <<>> THEN [layers |-> <<>>, panicked |-> FALSE, returned |-> TRUE]
       ELSE LET first == pairs[Len(pairs)]
                c     == collect_layers(SubSeq(pairs, 1, Len(pairs) - 1), <<>>, <<first[2]>>, first[1])
            IN IF c.panicked THEN [layers |-> <<>>, panicked |-> TRUE, returned |-> FALSE]
               ELSE [layers   |-> [k \in 1 .. Len(c.layers) |-> sort_layer(c.layers[k], 1, <<>>)],
                     panicked |-> FALSE,
                     returned |-> TRUE]

\* group_layers: `returned` is false when layout does not return, `panicked`
\* is true when pairs.pop().unwrap() or an assertion fails.
group_layers(ns) ==
    LET l     == layout(ns)
        pairs == reverse(sort_by_key(rank_pairs(l.ranks), 1, <<>>))
    IN IF ~l.returned THEN [layers |-> <<>>, panicked |-> FALSE, returned |-> FALSE]
       ELSE IF pairs = <<>> THEN [layers |-> <<>>, panicked |-> TRUE, returned |-> FALSE]
       ELSE LET first == pairs[Len(pairs)]
                c     == collect_layers(SubSeq(pairs, 1, Len(pairs) - 1), <<>>, <<first[2]>>, first[1])
            IN IF c.panicked THEN [layers |-> <<>>, panicked |-> TRUE, returned |-> FALSE]
               ELSE [layers   |-> [k \in 1 .. Len(c.layers) |-> sort_layer(c.layers[k], 1, <<>>)],
                     panicked |-> FALSE,
                     returned |-> TRUE]

\* -------------------------------------------------------------- substrate

\* Position2d: a pair of coordinates.
coords(p) == p

distance_square(p, q) ==
    (p[1] - q[1]) * (p[1] - q[1]) + (p[2] - q[2]) * (p[2] - q[2])

\* f64::sqrt, on the perfect squares the positions used here produce.
sqrt(n) == CHOOSE r \in 0 .. n : r * r = n

distance(p, q) == sqrt(distance_square(p, q))

\* The position of q as seen from p.
relative_position(p, q) == <<q[1] - p[1], q[2] - p[2]>>

\* The nodes placed in substrate layers, a position and a NodeType each: one
\* that rejects incoming links, one that accepts both directions, and, away
\* from these two, one that rejects outgoing links.
SubstrateNodes ==
    { [position |-> <<0, 0>>, node_type |-> [kind |-> "Input",  activation_function |-> "Linear"]],
      [position |-> <<0, 0>>, node_type |-> [kind |-> "Hidden", activation_function |-> "Linear"]],
      [position |-> <<3, 4>>, node_type |-> [kind |-> "Output", activation_function |-> "Linear"]] }

LinkMode == {"AbsolutePositions", "AbsolutePositionsAndDistance", "RelativePositionOfTarget"}

\* The max_distance values layer links are added with.
MaxDistances == { None, Some(0) }

\* The layer indices layer links are added with.
LayerIndices == {0, 1}

\* Mutant: the index returned is the number of layers after the push.
add_layer_count(sub, layer) ==
    [substrate |-> [sub EXCEPT !.layers = Append(@, layer)], layer_idx |-> Len(sub.layers) + 1]

add_layer(sub, layer) ==
    [substrate |-> [sub EXCEPT !.layers = Append(@, layer)], layer_idx |-> Len(sub.layers)]

add_layer_link(sub, from_layer, to_layer, max_distance) ==
    [sub EXCEPT !.layer_links = Append(@, [from_layer   |-> from_layer,
                                           to_layer     |-> to_layer,
                                           max_distance |-> max_distance])]

\* Cppn::calculate as a function of the evaluator state.
calculate(c, ns, inputs) ==
    LET r == process(c, ns, inputs)
    IN [cppn     |-> r.cppn,
        panicked |-> r.panicked,
        value    |-> IF r.panicked THEN <<>> ELSE collect_outputs(r.cppn, ns)]

\* Mutant: the distance is left out of the chunks in every mode.
inputs_to_cppn_no_distance(mode, source, target, d) ==
    CASE mode = "AbsolutePositions" ->
            <<coords(source.position), coords(target.position)>>
      [] mode = "AbsolutePositionsAndDistance" ->
            <<coords(source.position), coords(target.position)>>
      [] mode = "RelativePositionOfTarget" ->
            <<coords(source.position),
              coords(relative_position(source.position, target.position))>>

\* The chunks each_link hands to the evaluator for one pair of nodes.
inputs_to_cppn(mode, source, target, d) ==
    CASE mode = "AbsolutePositions" ->
            <<coords(source.position), coords(target.position)>>
      [] mode = "AbsolutePositionsAndDistance" ->
            <<coords(source.position), coords(target.position), <<d>>>>
      [] mode = "RelativePositionOfTarget" ->
            <<coords(source.position),
              coords(relative_position(source.position, target.position))>>

\* Mutant: a node is not paired with itself.
RECURSIVE each_target_no_self(_, _, _, _, _, _, _)
each_target_no_self(sub, ns, mode, st, li, source_idx, target_idx) ==
    LET layer_link == sub.layer_links[li + 1]
        source     == sub.layers[layer_link.from_layer + 1][source_idx + 1]
        targets    == sub.layers[layer_link.to_layer + 1]
    IN IF target_idx >= Len(targets) THEN st
       ELSE LET target == targets[target_idx + 1]
                d      == distance(source.position, target.position)
            IN IF ~accept_incoming_links(target.node_type)
               THEN each_target_no_self(sub, ns, mode, st, li, source_idx, target_idx + 1)
               ELSE IF layer_link.from_layer = layer_link.to_layer /\ source_idx = target_idx
               THEN each_target_no_self(sub, ns, mode, st, li, source_idx, target_idx + 1)
               ELSE IF layer_link.max_distance # None /\ d > layer_link.max_distance[1]
               THEN each_target_no_self(sub, ns, mode, st, li, source_idx, target_idx + 1)
               ELSE LET r == calculate(st.cppn, ns, inputs_to_cppn(mode, source, target, d))
                        link == [source     |-> source,
                                 target     |-> target,
                                 source_idx |-> <<layer_link.from_layer, source_idx>>,
                                 target_idx |-> <<layer_link.to_layer, target_idx>>,
                                 outputs    |-> r.value,
                                 distance   |-> d]
                    IN IF r.panicked
                       THEN [st EXCEPT !.cppn = r.cppn, !.calls = @ + 1, !.panicked = TRUE]
                       ELSE each_target_no_self(sub, ns, mode,
                                        [cppn     |-> r.cppn,
                                         links    |-> Append(st.links, link),
                                         calls    |-> st.calls + 1,
                                         panicked |-> FALSE],
                                        li, source_idx, target_idx + 1)

\* The state each_link carries: the evaluator, the links handed to the
\* callback so far, the calculate calls made, and whether it has panicked.
\* The innermost loop, over the nodes of the to_layer from target_idx on.
RECURSIVE each_target(_, _, _, _, _, _, _)
each_target(sub, ns, mode, st, li, source_idx, target_idx) ==
    LET layer_link == sub.layer_links[li + 1]
        source     == sub.layers[layer_link.from_layer + 1][source_idx + 1]
        targets    == sub.layers[layer_link.to_layer + 1]
    IN IF target_idx >= Len(targets) THEN st
       ELSE LET target == targets[target_idx + 1]
                d      == distance(source.position, target.position)
            IN IF ~accept_incoming_links(target.node_type)
               THEN each_target(sub, ns, mode, st, li, source_idx, target_idx + 1)
               ELSE IF layer_link.max_distance # None /\ d > layer_link.max_distance[1]
               THEN each_target(sub, ns, mode, st, li, source_idx, target_idx + 1)
               ELSE LET r == calculate(st.cppn, ns, inputs_to_cppn(mode, source, target, d))
                        link == [source     |-> source,
                                 target     |-> target,
                                 source_idx |-> <<layer_link.from_layer, source_idx>>,
                                 target_idx |-> <<layer_link.to_layer, target_idx>>,
                                 outputs    |-> r.value,
                                 distance   |-> d]
                    IN IF r.panicked
                       THEN [st EXCEPT !.cppn = r.cppn, !.calls = @ + 1, !.panicked = TRUE]
                       ELSE each_target(sub, ns, mode,
                                        [cppn     |-> r.cppn,
                                         links    |-> Append(st.links, link),
                                         calls    |-> st.calls + 1,
                                         panicked |-> FALSE],
                                        li, source_idx, target_idx + 1)

\* Mutant: sources are not asked whether they accept outgoing links.
RECURSIVE each_source_unfiltered(_, _, _, _, _, _)
each_source_unfiltered(sub, ns, mode, st, li, source_idx) ==
    LET layer_link == sub.layer_links[li + 1]
        sources    == sub.layers[layer_link.from_layer + 1]
    IN IF source_idx >= Len(sources) THEN st
       ELSE IF layer_link.to_layer >= Len(sub.layers)
       THEN [st EXCEPT !.panicked = TRUE]
       ELSE LET st1 == each_target(sub, ns, mode, st, li, source_idx, 0)
            IN IF st1.panicked THEN st1
               ELSE each_source_unfiltered(sub, ns, mode, st1, li, source_idx + 1)

\* The loop over the nodes of the from_layer from source_idx on; indexing
\* self.layers with a to_layer that does not exist panics.
RECURSIVE each_source(_, _, _, _, _, _)
each_source(sub, ns, mode, st, li, source_idx) ==
    LET layer_link == sub.layer_links[li + 1]
        sources    == sub.layers[layer_link.from_layer + 1]
    IN IF source_idx >= Len(sources) THEN st
       ELSE IF ~accept_outgoing_links(sources[source_idx + 1].node_type)
       THEN each_source(sub, ns, mode, st, li, source_idx + 1)
       ELSE IF layer_link.to_layer >= Len(sub.layers)
       THEN [st EXCEPT !.panicked = TRUE]
       ELSE LET st1 == each_target(sub, ns, mode, st, li, source_idx, 0)
            IN IF st1.panicked THEN st1
               ELSE each_source(sub, ns, mode, st1, li, source_idx + 1)

\* Mutant: only the layer link at position li is walked.
each_layer_link_single(sub, ns, mode, st, li) ==
    IF li >= Len(sub.layer_links) THEN st
    ELSE IF sub.layer_links[li + 1].from_layer >= Len(sub.layers)
    THEN [st EXCEPT !.panicked = TRUE]
    ELSE each_source(sub, ns, mode, st, li, 0)

\* The outer loop over the layer links from position li on; indexing
\* self.layers with a from_layer that does not exist panics.
RECURSIVE each_layer_link(_, _, _, _, _)
each_layer_link(sub, ns, mode, st, li) ==
    IF li >= Len(sub.layer_links) THEN st
    ELSE IF sub.layer_links[li + 1].from_layer >= Len(sub.layers)
    THEN [st EXCEPT !.panicked = TRUE]
    ELSE LET st1 == each_source(sub, ns, mode, st, li, 0)
         IN IF st1.panicked THEN st1
            ELSE each_layer_link(sub, ns, mode, st1, li + 1)

each_link(sub, c, ns, mode) ==
    each_layer_link(sub, ns, mode,
                    [cppn |-> c, links |-> <<>>, calls |-> 0, panicked |-> FALSE], 0)

\* ------------------------------------------------------------ operations

\* The ways a flat scalar list is passed as a slice of slices: one chunk per
\* scalar, or all scalars in one chunk.
Chunkings(flat) == { [k \in 1 .. Len(flat) |-> <<flat[k]>>], <<flat>> }

FlatInputs(n) == IF n < 0 THEN {} ELSE [1 .. n -> InputValues]

\* The argument lists process and calculate are called with: the evaluator's
\* input count in either chunking, one scalar fewer, and one scalar more (the
\* surplus scalar is never stored, so one value stands for all).
InputLists(c) ==
    UNION { Chunkings(flat) : flat \in FlatInputs(Len(c.inputs)) }
    \cup { <<flat>> : flat \in FlatInputs(Len(c.inputs) - 1) }
    \cup { <<Append(flat, CHOOSE x \in InputValues : TRUE)>> : flat \in FlatInputs(Len(c.inputs)) }

Init ==
    /\ nodes = <<>>
    /\ cppn = NoCppn
    /\ panicked = FALSE
    /\ checked = TRUE
    /\ ret = NoRet
    /\ substrate = substrate_new

add_node(ns, nt) == Append(ns, [node_type |-> nt, links |-> <<>>])

add_link(ns, src, dst, weight) ==
    [ns EXCEPT ![src + 1].links = Append(@, [target |-> dst, weight |-> weight])]

AddNode ==
    /\ ~panicked
    /\ cppn = NoCppn
    /\ Len(nodes) < MaxNodes
    /\ \E nt \in CppnNode : nodes' = add_node(nodes, nt)
    /\ ret' = NoRet
    /\ UNCHANGED <<cppn, panicked, checked, substrate>>

\* add_link panics on an invalid link and does not look for cycles; `checked`
\* records whether link_would_cycle(src, dst) was false right before each call.
AddLink(max_links) ==
    /\ ~panicked
    /\ cppn = NoCppn
    /\ link_count(nodes) < max_links
    /\ \E src \in NodeIndices(nodes), dst \in NodeIndices(nodes), w \in Weights :
          IF valid_link(nodes, src, dst) = "Ok"
          THEN /\ nodes' = add_link(nodes, src, dst, w)
               /\ checked' = (checked /\ ~link_would_cycle(nodes, src, dst))
               /\ UNCHANGED panicked
          ELSE /\ panicked' = TRUE
               /\ UNCHANGED <<nodes, checked>>
    /\ ret' = NoRet
    /\ UNCHANGED <<cppn, substrate>>

FindRandomUnconnectedLinkNoCycle ==
    /\ ~panicked
    /\ \E r \in find_random_unconnected_link_no_cycle(nodes) :
          ret' = [op |-> "find_random_unconnected_link_no_cycle", arg |-> <<>>, value |-> r]
    /\ UNCHANGED <<nodes, cppn, panicked, checked, substrate>>

New ==
    /\ ~panicked
    /\ cppn = NoCppn
    /\ cppn' = Some(cppn_new(nodes))
    /\ ret' = NoRet
    /\ UNCHANGED <<nodes, panicked, checked, substrate>>

Process ==
    /\ ~panicked
    /\ cppn # NoCppn
    /\ \E inputs \in InputLists(cppn[1]) :
          LET r == process(cppn[1], nodes, inputs)
          IN /\ cppn' = Some(r.cppn)
             /\ panicked' = r.panicked
             /\ ret' = IF r.panicked THEN Panic(flatten(inputs))
                       ELSE [op |-> "process", arg |-> flatten(inputs), value |-> None]
    /\ UNCHANGED <<nodes, checked, substrate>>

Calculate ==
    /\ ~panicked
    /\ cppn # NoCppn
    /\ \E inputs \in InputLists(cppn[1]) :
          LET r == process(cppn[1], nodes, inputs)
          IN /\ cppn' = Some(r.cppn)
             /\ panicked' = r.panicked
             /\ ret' = IF r.panicked THEN Panic(flatten(inputs))
                       ELSE [op |-> "calculate", arg |-> flatten(inputs),
                             value |-> collect_outputs(r.cppn, nodes)]
    /\ UNCHANGED <<nodes, checked, substrate>>

ReadOutput ==
    /\ ~panicked
    /\ cppn # NoCppn
    /\ \E nth_output \in 0 .. output_count(cppn[1]) :
          ret' = [op |-> "read_output", arg |-> <<nth_output>>,
                  value |-> read_output(cppn[1], nodes, nth_output)]
    /\ UNCHANGED <<nodes, cppn, panicked, checked, substrate>>

\* The graph under construction, then an evaluator bound to it.
Next ==
    \/ AddNode
    \/ AddLink(MaxLinks)
    \/ New
    \/ Process
    \/ Calculate
    \/ ReadOutput

Spec == Init /\ [][Next]_vars

\* The graph under construction, then an evaluator that is only fed inputs.
NextLoading ==
    \/ AddNode
    \/ AddLink(MaxLinks)
    \/ New
    \/ Process
    \/ Calculate

SpecLoading == Init /\ [][NextLoading]_vars

\* The graph under construction and the random edge picker.
NextGraph ==
    \/ AddNode
    \/ AddLink(MaxLinks)
    \/ FindRandomUnconnectedLinkNoCycle

SpecGraph == Init /\ [][NextGraph]_vars

\* The node list of tests::test_layout (i1, h1, h2, o1), the output node with
\* either activation function the tests give it, then links and an evaluator.
InitFixture ==
    /\ \E af \in {"Linear", "Constant1"} :
          nodes = add_node(add_node(add_node(add_node(<<>>,
                      [kind |-> "Input",  activation_function |-> "Linear"]),
                      [kind |-> "Hidden", activation_function |-> "Linear"]),
                      [kind |-> "Hidden", activation_function |-> "Linear"]),
                      [kind |-> "Output", activation_function |-> af])
    /\ cppn = NoCppn
    /\ panicked = FALSE
    /\ checked = TRUE
    /\ ret = NoRet
    /\ substrate = substrate_new

NextFixture ==
    \/ AddLink(MaxFixtureLinks)
    \/ New
    \/ Process
    \/ Calculate
    \/ ReadOutput

SpecFixture == InitFixture /\ [][NextFixture]_vars

\* A call that has not returned within the bound on passes.
Hung(call) == [op |-> "hung", arg |-> <<call>>, value |-> None]

Layout ==
    /\ ~panicked
    /\ cppn # NoCppn
    /\ ret.op # "hung"
    /\ LET l == layout(nodes)
       IN ret' = IF l.returned THEN [op |-> "layout", arg |-> <<>>, value |-> Some(l.ranks)]
                 ELSE Hung("layout")
    /\ UNCHANGED <<nodes, cppn, panicked, checked, substrate>>

GroupLayers ==
    /\ ~panicked
    /\ cppn # NoCppn
    /\ ret.op # "hung"
    /\ LET g == group_layers(nodes)
       IN /\ panicked' = g.panicked
          /\ ret' = IF g.returned THEN [op |-> "group_layers", arg |-> <<>>, value |-> Some(g.layers)]
                    ELSE IF g.panicked THEN [op |-> "group_layers", arg |-> <<>>, value |-> None]
                    ELSE Hung("group_layers")
    /\ UNCHANGED <<nodes, cppn, checked, substrate>>

\* The fixture's nodes with links added with or without the cycle check, then
\* an evaluator that is fed inputs and asked for its layout.
NextFixtureLayout ==
    \/ AddLink(MaxFixtureLinks)
    \/ New
    \/ Process
    \/ Layout

SpecFixtureLayout == InitFixture /\ [][NextFixtureLayout]_vars

\* The graph under construction, then an evaluator asked for its layout.
NextLayout ==
    \/ AddNode
    \/ AddLink(MaxLinks)
    \/ New
    \/ Layout
    \/ GroupLayers

SpecLayout == Init /\ [][NextLayout]_vars

\* The sequences over S of length at most n.
SeqsUpTo(S, n) == UNION { [1 .. k -> S] : k \in 0 .. n }

\* The nodes a substrate holds over all its layers.
substrate_node_count(sub) == Len(flatten(sub.layers))

\* A CPPN for pairs of two-dimensional positions: four inputs, each linked to
\* the one output.
substrate_cppn_graph ==
    LET in  == [kind |-> "Input",  activation_function |-> "Linear"]
        out == [kind |-> "Output", activation_function |-> "Linear"]
        w   == CHOOSE x \in Weights : TRUE
        ns  == add_node(add_node(add_node(add_node(add_node(<<>>, in), in), in), in), out)
    IN add_link(add_link(add_link(add_link(ns, 0, 4, w), 1, 4, w), 2, 4, w), 3, 4, w)

\* A CPPN for pairs of two-dimensional positions and their distance: five
\* inputs, each linked to the one output.
substrate_cppn_graph_distance ==
    LET in  == [kind |-> "Input",  activation_function |-> "Linear"]
        out == [kind |-> "Output", activation_function |-> "Linear"]
        w   == CHOOSE x \in Weights : TRUE
        ns  == add_node(add_node(add_node(add_node(add_node(add_node(<<>>,
                   in), in), in), in), in), out)
    IN add_link(add_link(add_link(add_link(add_link(ns, 0, 5, w), 1, 5, w), 2, 5, w), 3, 5, w),
                4, 5, w)

InitSubstrate ==
    /\ nodes = substrate_cppn_graph
    /\ cppn = Some(cppn_new(substrate_cppn_graph))
    /\ panicked = FALSE
    /\ checked = TRUE
    /\ ret = NoRet
    /\ substrate = substrate_new

\* A layer is filled and then moved into the substrate.
AddLayer ==
    /\ ~panicked
    /\ ret.op # "each_link"
    /\ Len(substrate.layers) < Cardinality(LayerIndices)
    /\ \E layer \in SeqsUpTo(SubstrateNodes, MaxSubstrateNodes - substrate_node_count(substrate)) :
          LET r == add_layer(substrate, layer)
          IN /\ substrate' = r.substrate
             /\ ret' = [op |-> "add_layer", arg |-> <<>>, value |-> Some(r.layer_idx)]
    /\ UNCHANGED <<nodes, cppn, panicked, checked>>

AddLayerLink(max_layer_links) ==
    /\ ~panicked
    /\ ret.op # "each_link"
    /\ Len(substrate.layer_links) < max_layer_links
    /\ \E from_layer \in LayerIndices, to_layer \in LayerIndices, max_distance \in MaxDistances :
          substrate' = add_layer_link(substrate, from_layer, to_layer, max_distance)
    /\ ret' = NoRet
    /\ UNCHANGED <<nodes, cppn, panicked, checked>>

\* each_link with a callback that collects the links it is handed.  The call
\* borrows the substrate and, mutably, the evaluator for the evaluator's whole
\* lifetime, so it is the last use of both.
EachLink ==
    /\ ~panicked
    /\ cppn # NoCppn
    /\ ret.op # "each_link"
    /\ \E mode \in LinkMode :
          LET r == each_link(substrate, cppn[1], nodes, mode)
          IN /\ cppn' = Some(r.cppn)
             /\ panicked' = r.panicked
             /\ ret' = [op |-> "each_link", arg |-> <<mode, r.calls>>, value |-> r.links]
    /\ UNCHANGED <<nodes, checked, substrate>>

NextSubstrate ==
    \/ AddLayer
    \/ AddLayerLink(MaxLayerLinks)
    \/ EachLink

SpecSubstrate == InitSubstrate /\ [][NextSubstrate]_vars

\* A substrate walked with an evaluator of four or of five inputs.
InitSubstrateArity ==
    /\ nodes \in {substrate_cppn_graph, substrate_cppn_graph_distance}
    /\ cppn = Some(cppn_new(nodes))
    /\ panicked = FALSE
    /\ checked = TRUE
    /\ ret = NoRet
    /\ substrate = substrate_new

NextSubstrateArity ==
    \/ AddLayer
    \/ AddLayerLink(MaxArityLayerLinks)
    \/ EachLink

SpecSubstrateArity == InitSubstrateArity /\ [][NextSubstrateArity]_vars

\* The arguments an activation function is applied to.
ActivationInputs == { Quarter * q : q \in -MaxQuarters .. MaxQuarters }

\* One call of calculate; debug_assertions tells whether the build keeps the
\* debug assertion, whose failure panics.
Apply(op, af, x, debug_assertions) ==
    LET r == geometric_calculate(af, x)
    IN /\ panicked' = (debug_assertions /\ r.failed)
       /\ ret' = [op |-> op, arg |-> <<af, x, debug_assertions>>,
                  value |-> IF debug_assertions /\ r.failed THEN None ELSE Some(r.value)]
       /\ UNCHANGED <<nodes, cppn, checked, substrate>>

ActivationCalculate ==
    /\ ~panicked
    /\ \E af \in ActivationFunctions, x \in ActivationInputs, debug_assertions \in BOOLEAN :
          Apply("activation", af, x, debug_assertions)

\* The function just applied is applied to its own result.
ActivationCalculateAgain ==
    /\ ~panicked
    /\ ret.op = "activation"
    /\ ret.value[1] \in ActivationInputs
    /\ Apply("activation_again", ret.arg[1], ret.value[1], ret.arg[3])

NextActivation ==
    \/ ActivationCalculate
    \/ ActivationCalculateAgain

SpecActivation == Init /\ [][NextActivation]_vars

\* ---------------------------------------------- reference definitions

kind_of(i) == node_type(nodes, i).kind

\* The stored links of the graph as pairs <<source, target>>.
StoredLinks == UNION { {i} \X Successors(nodes, i) : i \in NodeIndices(nodes) }

\* Kahn's algorithm: remove nodes without an incoming link from the remaining
\* nodes until none can be removed; the graph is acyclic iff nothing remains.
RECURSIVE Kahn(_)
Kahn(remaining) ==
    LET free == { v \in remaining : \A u \in remaining : v \notin Successors(nodes, u) }
    IN IF remaining = {} THEN TRUE
       ELSE IF free = {} THEN FALSE
       ELSE Kahn(remaining \ free)

Acyclic == Kahn(NodeIndices(nodes))

\* The nodes reachable from the set S over at least zero links.
RECURSIVE Closure(_)
Closure(S) ==
    LET T == S \cup UNION { Successors(nodes, u) : u \in S }
    IN IF T = S THEN S ELSE Closure(T)

ReachableFrom(v) == Closure({v})

\* A pair the edge picker is allowed to return.
Eligible(i, j) ==
    /\ i # j
    /\ <<i, j>> \notin StoredLinks
    /\ valid_link(nodes, i, j) = "Ok"
    /\ ~link_would_cycle(nodes, i, j)

Picked == ret.op = "find_random_unconnected_link_no_cycle"

\* The evaluator, when one is bound.
evaluator == cppn[1]

Processed == ret.op \in {"process", "calculate"}

\* The nodes of one kind in graph insertion order.
NodesOfKind(kind) ==
    SelectSeq(node_index_list(nodes), LAMBDA i : node_type(nodes, i).kind = kind)

InputNodes == NodesOfKind("Input")

OutputNodes == NodesOfKind("Output")

\* The position of Input node v among the Input nodes (1-based).
InputPosition(v) == CHOOSE k \in 1 .. Len(InputNodes) : InputNodes[k] = v

\* The feed-forward evaluation of an acyclic graph on the flat input list:
\* RefSum(v) is the loaded input of an Input node and otherwise the sum over all
\* links u -> v of weight times RefValue(u); RefValue(v) is the node's
\* activation function applied to RefSum(v).
RECURSIVE RefSum(_, _), RefValue(_, _), RefLinks(_, _, _, _), RefNodes(_, _, _)
RefLinks(v, flat, u, p) ==
    IF p > Len(forward_links(nodes, u)) THEN 0
    ELSE (IF forward_links(nodes, u)[p].target = v
          THEN forward_links(nodes, u)[p].weight * RefValue(u, flat) ELSE 0)
         + RefLinks(v, flat, u, p + 1)
RefNodes(v, flat, u) ==
    IF u > Len(nodes) - 1 THEN 0
    ELSE (IF v \in Successors(nodes, u) THEN RefLinks(v, flat, u, 1) ELSE 0)
         + RefNodes(v, flat, u + 1)
RefSum(v, flat) ==
    IF kind_of(v) = "Input" THEN flat[InputPosition(v)] ELSE RefNodes(v, flat, 0)
RefValue(v, flat) ==
    calculate_activation(node_type(nodes, v).activation_function, RefSum(v, flat))

\* The sum of the weights of the links from Bias nodes into v.
RECURSIVE BiasLinks(_, _, _), BiasWeights(_, _)
BiasLinks(v, u, p) ==
    IF p > Len(forward_links(nodes, u)) THEN 0
    ELSE (IF forward_links(nodes, u)[p].target = v THEN forward_links(nodes, u)[p].weight ELSE 0)
         + BiasLinks(v, u, p + 1)
BiasWeights(v, u) ==
    IF u > Len(nodes) - 1 THEN 0
    ELSE (IF kind_of(u) = "Bias" THEN BiasLinks(v, u, 1) ELSE 0) + BiasWeights(v, u + 1)

Predecessors(v) == { u \in NodeIndices(nodes) : v \in Successors(nodes, u) }

\* The state of a freshly constructed evaluator after process on the flat list.
FreshProcess(flat) == process(cppn_new(nodes), nodes, <<flat>>).cppn

\* ----------------------------------------------------------------- claims

\* C1: when link_would_cycle(src, dst) was false right before every add_link,
\* the graph has no directed cycle (Kahn's algorithm empties it).
C1_Acyclicity == checked => Acyclic

\* Links were stored under the check, and a valid link that the check refuses exists.
C1_Witness ==
    /\ checked
    /\ link_count(nodes) >= 2
    /\ \E src, dst \in NodeIndices(nodes) :
          /\ src # dst
          /\ valid_link(nodes, src, dst) = "Ok"
          /\ link_would_cycle(nodes, src, dst)

\* C2: no stored link has an Output source, an Input or Bias target, or equal
\* endpoints.
C2_Admissibility ==
    \A l \in StoredLinks :
        /\ kind_of(l[1]) # "Output"
        /\ kind_of(l[2]) \notin {"Input", "Bias"}
        /\ l[1] # l[2]

\* A link is stored and a later add_link was refused.
C2_Witness == panicked /\ link_count(nodes) >= 1

\* C3: valid_link fails exactly on a self-loop, an Output source or an Input or
\* Bias target, whatever links exist.
C3_ValidLink ==
    \A src, dst \in NodeIndices(nodes) :
        /\ (valid_link(nodes, src, dst) # "Ok")
             <=> (src = dst \/ kind_of(src) = "Output" \/ kind_of(dst) \in {"Input", "Bias"})
        /\ valid_link(nodes, src, dst)
             = valid_link([k \in 1 .. Len(nodes) |-> [nodes[k] EXCEPT !.links = <<>>]], src, dst)

\* Some link that would close a cycle is a valid link, and some pair is refused.
C3_Witness ==
    /\ \E src, dst \in NodeIndices(nodes) :
          src # dst /\ link_would_cycle(nodes, src, dst) /\ valid_link(nodes, src, dst) = "Ok"
    /\ \E src, dst \in NodeIndices(nodes) :
          src # dst /\ valid_link(nodes, src, dst) # "Ok"

\* C4: link_would_cycle(src, dst) is true exactly when src = dst or src is
\* reachable from dst over stored links, and its walk pops at most one node per
\* node of the graph, on cyclic graphs too.
C4_LinkWouldCycle ==
    \A src, dst \in NodeIndices(nodes) :
        /\ link_would_cycle(nodes, src, dst) <=> (src = dst \/ src \in ReachableFrom(dst))
        /\ CycleWalk(nodes, src, <<dst>>, {dst}, 0).pops <= Len(nodes)

\* src is reached from dst over more than one link.
C4_Witness ==
    \E src, dst \in NodeIndices(nodes) :
        /\ src # dst
        /\ src \notin Successors(nodes, dst)
        /\ link_would_cycle(nodes, src, dst)

\* C5: a pair returned by find_random_unconnected_link_no_cycle is a valid link
\* that would not cycle.
C5_PickerSound ==
    (Picked /\ ret.value # None) =>
        /\ valid_link(nodes, ret.value[1][1], ret.value[1][2]) = "Ok"
        /\ ~link_would_cycle(nodes, ret.value[1][1], ret.value[1][2])

\* A pair was returned on a graph where only the cycle walk refuses some pair.
C5_Witness ==
    /\ Picked
    /\ ret.value # None
    /\ \E i, j \in NodeIndices(nodes) :
          /\ i # j
          /\ <<i, j>> \notin adj_matrix(nodes)
          /\ valid_link(nodes, i, j) = "Ok"
          /\ link_would_cycle(nodes, i, j)

\* C6: the picker returns None exactly when no pair is eligible, and never
\* returns a pair that is already linked.
C6_PickerComplete ==
    Picked =>
        /\ (ret.value = None) <=> ~(\E i, j \in NodeIndices(nodes) : Eligible(i, j))
        /\ ret.value # None => ret.value[1] \notin StoredLinks

\* None was returned on a graph with links.
C6_Witness == Picked /\ ret.value = None /\ link_count(nodes) >= 2

\* C7: on an acyclic graph calculate returns, per Output node in insertion
\* order, the feed-forward value of that node, and every node's incoming_signals
\* entry is then its complete weighted sum.
C7_CalculateIsFeedForward ==
    (ret.op = "calculate" /\ Acyclic) =>
        /\ ret.value = [k \in 1 .. Len(OutputNodes) |-> RefValue(OutputNodes[k], ret.arg)]
        /\ \A v \in NodeIndices(nodes) :
              evaluator.incoming_signals[v + 1] = RefSum(v, ret.arg)

\* C8: after process, a node fed by Bias nodes only holds the sum of the weights
\* of its incoming links: every Bias node put out 1.
C8_BiasOutputsOne ==
    Processed =>
        \A v \in NodeIndices(nodes) :
            (Predecessors(v) # {} /\ \A u \in Predecessors(v) : kind_of(u) = "Bias")
                => evaluator.incoming_signals[v + 1] = BiasWeights(v, 0)

\* C9: after every process or calculate, from whatever state earlier calls left
\* the evaluator in, the evaluator is in the state a freshly constructed one
\* reaches on the same input, and calculate has returned that evaluator's outputs.
C9_HistoryIndependent ==
    Processed =>
        LET fresh == FreshProcess(ret.arg)
        IN /\ evaluator = fresh
           /\ ret.op = "calculate" => ret.value = collect_outputs(fresh, nodes)

\* An evaluator that a completed call left with accumulated signals, a seen-set
\* and a non-zero input.
C9_Witness ==
    /\ Processed
    /\ evaluator.seen_bfs # {}
    /\ \E v \in NodeIndices(nodes) :
          kind_of(v) = "Hidden" /\ evaluator.incoming_signals[v + 1] # 0

\* C10: read_output(k) is the k-th Output node's activation function applied to
\* its incoming_signals entry for k < output_count(), so 1 for Constant1, and
\* None for every other k.
C10_ReadOutput ==
    ret.op = "read_output" =>
        LET k == ret.arg[1]
        IN IF k < Len(OutputNodes)
           THEN LET o  == OutputNodes[k + 1]
                    af == node_type(nodes, o).activation_function
                IN /\ ret.value = Some(calculate_activation(af, evaluator.incoming_signals[o + 1]))
                   /\ af = "Constant1" => ret.value = Some(1)
           ELSE ret.value = None

\* A Constant1 output that is not the first output is read while its
\* incoming_signals entry is neither 0 nor 1.
C10_Witness ==
    /\ ret.op = "read_output"
    /\ ret.arg[1] >= 1
    /\ ret.arg[1] < Len(OutputNodes)
    /\ node_type(nodes, OutputNodes[ret.arg[1] + 1]).activation_function = "Constant1"
    /\ evaluator.incoming_signals[OutputNodes[ret.arg[1] + 1] + 1] \notin {0, 1}

\* C11: process and calculate panic exactly when the number of scalars over all
\* chunks differs from input_count(), and a call that panics has only reset the
\* accumulators and loaded inputs: frontier, seen-set and every other
\* accumulator are as no propagation step leaves them.
C11_ArityMismatchAborts ==
    [][(cppn # NoCppn /\ ret'.op \in {"process", "calculate", "panic"}) =>
          /\ (ret'.op = "panic") <=> (Len(ret'.arg) # input_count(cppn[1]))
          /\ (ret'.op = "panic") <=> panicked'
          /\ ret'.op = "panic" =>
                cppn'[1] = assign_inputs(reset_signals(cppn[1]), ret'.arg, 0).cppn]_vars

\* A call with too few scalars panicked on an evaluator that an earlier call
\* had propagated signals through.
C11_Witness ==
    /\ ret.op = "panic"
    /\ Len(ret.arg) < input_count(evaluator)
    /\ evaluator.seen_bfs # {}
    /\ link_count(nodes) >= 1

\* The ranks a returned layout call handed back.
Ranks == ret.value[1]

Max(S) == CHOOSE x \in S : \A y \in S : y <= x

\* C12: the ranks layout returns on an acyclic graph are strictly smaller at
\* the source than at the target of every link.
C12_LayoutMonotone ==
    (ret.op = "layout" /\ Acyclic) =>
        \A l \in StoredLinks : Ranks[l[1] + 1] < Ranks[l[2] + 1]

\* layout returned on an acyclic graph with a link whose target started at a
\* rank not above its source's.
C12_Witness ==
    /\ ret.op = "layout"
    /\ Acyclic
    /\ link_count(nodes) >= 2
    /\ \E l \in StoredLinks :
          initial_ranks(nodes)[l[2] + 1] <= initial_ranks(nodes)[l[1] + 1]

Layers == ret.value[1]

LayerOf(v) == CHOOSE k \in DOMAIN Layers : \E p \in DOMAIN Layers[k] : Layers[k][p] = v

\* C14: on a non-empty graph on which layout returns, group_layers returns
\* layers that hold every node index exactly once, none empty, two nodes in
\* one layer exactly when layout ranks them equal, layers in strictly
\* ascending rank order, each layer sorted ascending.
C14_GroupLayers ==
    (ret.op = "group_layers" /\ Len(nodes) > 0) =>
        /\ ret.value # None
        /\ Len(flatten(Layers)) = Len(nodes)
        /\ \A v \in NodeIndices(nodes) :
              \E k \in DOMAIN Layers : \E p \in DOMAIN Layers[k] : Layers[k][p] = v
        /\ \A k \in DOMAIN Layers : Layers[k] # <<>>
        /\ \A a, b \in NodeIndices(nodes) :
              /\ (LayerOf(a) = LayerOf(b)) <=> (layout(nodes).ranks[a + 1] = layout(nodes).ranks[b + 1])
              /\ (LayerOf(a) < LayerOf(b)) <=> (layout(nodes).ranks[a + 1] < layout(nodes).ranks[b + 1])
        /\ \A k \in DOMAIN Layers : \A p, q \in DOMAIN Layers[k] :
              p < q => Layers[k][p] < Layers[k][q]

\* group_layers returned several layers, one with two nodes, on a graph whose
\* ranks do not ascend with the node index.
C14_Witness ==
    /\ ret.op = "group_layers"
    /\ ret.value # None
    /\ Len(Layers) >= 2
    /\ \E k \in DOMAIN Layers : Len(Layers[k]) >= 2
    /\ \E a, b \in NodeIndices(nodes) :
          a < b /\ layout(nodes).ranks[a + 1] > layout(nodes).ranks[b + 1]

\* The links a finished or aborted each_link call handed to its callback.
EmittedLinks == ret.value

\* each_link ran through all layer links.
EachLinkCompleted == ret.op = "each_link" /\ ~panicked

\* C15: every link each_link hands to the callback has a source that accepts
\* outgoing links and a target that accepts incoming links, carries the
\* distance of their positions, and comes from a layer link between the two
\* layers that has no max_distance or one that is not below that distance.
C15_SubstrateAdmissible ==
    ret.op = "each_link" =>
        \A k \in DOMAIN EmittedLinks :
            LET link == EmittedLinks[k]
            IN /\ accept_outgoing_links(link.source.node_type)
               /\ accept_incoming_links(link.target.node_type)
               /\ link.distance = distance(link.source.position, link.target.position)
               /\ \E li \in DOMAIN substrate.layer_links :
                     LET layer_link == substrate.layer_links[li]
                     IN /\ layer_link.from_layer = link.source_idx[1]
                        /\ layer_link.to_layer = link.target_idx[1]
                        /\ \/ layer_link.max_distance = None
                           \/ link.distance <= layer_link.max_distance[1]

\* Every layer link has a max_distance; a link at exactly that distance was
\* handed over, and a pair of an accepting source and an accepting target
\* further apart was not.
C15_Witness ==
    /\ EachLinkCompleted
    /\ \A li \in DOMAIN substrate.layer_links : substrate.layer_links[li].max_distance # None
    /\ \E k \in DOMAIN EmittedLinks : EmittedLinks[k].distance = 0
    /\ \E li \in DOMAIN substrate.layer_links :
          LET layer_link == substrate.layer_links[li]
          IN /\ layer_link.from_layer < Len(substrate.layers)
             /\ layer_link.to_layer < Len(substrate.layers)
             /\ \E s \in DOMAIN substrate.layers[layer_link.from_layer + 1],
                   t \in DOMAIN substrate.layers[layer_link.to_layer + 1] :
                   LET source == substrate.layers[layer_link.from_layer + 1][s]
                       target == substrate.layers[layer_link.to_layer + 1][t]
                   IN /\ source.node_type.kind # "Output"
                      /\ target.node_type.kind # "Input"
                      /\ distance(source.position, target.position) > layer_link.max_distance[1]

\* The nodes of the layer with index idx; a layer that does not exist has none.
LayerNodes(idx) == IF idx < Len(substrate.layers) THEN substrate.layers[idx + 1] ELSE <<>>

\* The triples <<layer link position, source index, target index>> that pass
\* the connectivity filters.
PassingTriples ==
    UNION { { <<li, s, t>> :
                s \in { x \in 0 .. Len(LayerNodes(substrate.layer_links[li + 1].from_layer)) - 1 :
                          accept_outgoing_links(
                              LayerNodes(substrate.layer_links[li + 1].from_layer)[x + 1].node_type) },
                t \in { y \in 0 .. Len(LayerNodes(substrate.layer_links[li + 1].to_layer)) - 1 :
                          accept_incoming_links(
                              LayerNodes(substrate.layer_links[li + 1].to_layer)[y + 1].node_type) } }
            : li \in 0 .. Len(substrate.layer_links) - 1 }

\* The triple passes the max_distance filter of its layer link.
TripleAdmitted(tr) ==
    LET layer_link == substrate.layer_links[tr[1] + 1]
        source     == LayerNodes(layer_link.from_layer)[tr[2] + 1]
        target     == LayerNodes(layer_link.to_layer)[tr[3] + 1]
    IN \/ layer_link.max_distance = None
       \/ distance(source.position, target.position) <= layer_link.max_distance[1]

LexLess(a, b) ==
    \/ a[1] < b[1]
    \/ a[1] = b[1] /\ a[2] < b[2]
    \/ a[1] = b[1] /\ a[2] = b[2] /\ a[3] < b[3]

\* The triples of S in lexicographic order.
RECURSIVE LexSorted(_)
LexSorted(S) ==
    IF S = {} THEN <<>>
    ELSE LET least == CHOOSE a \in S : \A b \in S \ {a} : LexLess(a, b)
         IN <<least>> \o LexSorted(S \ {least})

\* C16: a completed each_link has handed over exactly one link per triple
\* (layer link, source of its from_layer, target of its to_layer) that passes
\* the filters, in lexicographic order of the triples, each link carrying
\* source_idx = (from_layer, source index), target_idx = (to_layer, target
\* index) and the two nodes; a layer link added twice yields its links twice.
C16_SubstrateOrder ==
    EachLinkCompleted =>
        LET expected == LexSorted({ tr \in PassingTriples : TripleAdmitted(tr) })
        IN /\ Len(EmittedLinks) = Len(expected)
           /\ \A k \in DOMAIN EmittedLinks :
                 LET link       == EmittedLinks[k]
                     layer_link == substrate.layer_links[expected[k][1] + 1]
                 IN /\ link.source_idx = <<layer_link.from_layer, expected[k][2]>>
                    /\ link.target_idx = <<layer_link.to_layer, expected[k][3]>>
                    /\ link.source = substrate.layers[layer_link.from_layer + 1][expected[k][2] + 1]
                    /\ link.target = substrate.layers[layer_link.to_layer + 1][expected[k][3] + 1]

\* The same layer link was added twice and each copy yielded links from two
\* sources to two targets.
C16_Witness ==
    /\ EachLinkCompleted
    /\ Len(substrate.layer_links) = 2
    /\ substrate.layer_links[1] = substrate.layer_links[2]
    /\ Len(EmittedLinks) = 8

\* C17: LinearBipolarClipped is clip(x, -1, 1): 1.0 for x > 1, -1.0 for x < -1
\* and x itself in between; the result always lies in [-1, 1], its debug
\* assertion holds, and applying the function to its own result returns that
\* result.
C17_LinearBipolarClipped ==
    (ret.op \in {"activation", "activation_again"} /\ ret.arg[1] = "LinearBipolarClipped") =>
       LET x == ret.arg[2]
       IN /\ ~panicked
          /\ ret.value # None
          /\ x > Milli => ret.value[1] = Milli
          /\ x < -Milli => ret.value[1] = -Milli
          /\ (x >= -Milli /\ x <= Milli) => ret.value[1] = x
          /\ ret.value[1] >= -Milli /\ ret.value[1] <= Milli
          /\ ret.op = "activation_again" => ret.value[1] = x

\* 1.25 was clipped to 1.0 and the function applied once more.
C17_Witness ==
    /\ ret.op = "activation_again"
    /\ ret.arg[1] = "LinearBipolarClipped"
    /\ ret.arg[2] = Milli
    /\ ret.value = Some(Milli)

\* C18: for LinearBipolarClipped, BipolarGaussian, BipolarSigmoid, Sine and
\* Cosine the computed value lies in [-1, 1] for every finite argument, and
\* the debug assertion of bipolar_debug_check never fails.
C18_BipolarRange ==
    (ret.op = "activation" /\ ret.arg[1] \in BipolarFunctions) =>
       /\ ~panicked
       /\ ret.value # None
       /\ ret.value[1] >= -Milli /\ ret.value[1] <= Milli

\* The evaluator of the last process call as it enters propagate_signals:
\* inputs loaded, frontier holding the start nodes.
Frontier0 ==
    push_start_nodes(clear_bfs(assign_inputs(reset_signals(cppn_new(nodes)), ret.arg, 0).cppn), 1)

\* The nodes propagate_signals pops from c on, in the order it pops them.
RECURSIVE Evaluated(_)
Evaluated(c) ==
    IF c.nodes_bfs = <<>> THEN <<>>
    ELSE <<c.nodes_bfs[Len(c.nodes_bfs)]>> \o Evaluated(propagate_step(c, nodes))

\* The nodes propagate_signals pushes from c on, in the order it pushes them.
RECURSIVE Pushed(_)
Pushed(c) ==
    IF c.nodes_bfs = <<>> THEN <<>>
    ELSE LET d == propagate_step(c, nodes)
         IN SubSeq(d.nodes_bfs, Len(c.nodes_bfs), Len(d.nodes_bfs)) \o Pushed(d)

EvaluationOrder == Evaluated(Frontier0)

PushOrder == Frontier0.nodes_bfs \o Pushed(Frontier0)

Range(seq) == { seq[k] : k \in DOMAIN seq }

Injective(seq) == \A j, k \in DOMAIN seq : seq[j] = seq[k] => j = k

\* C19: during process on an acyclic graph no node is popped and evaluated
\* before each of its predecessors has been evaluated and has added its
\* contribution.
C19_EvaluationOrder ==
    (Processed /\ Acyclic) =>
       \A k \in DOMAIN EvaluationOrder :
          \A u \in Predecessors(EvaluationOrder[k]) :
             \E j \in 1 .. k - 1 : EvaluationOrder[j] = u

\* C20: in one process call every node reachable from a node of in-degree
\* zero is pushed exactly once and evaluated exactly once, and no other node is
\* pushed; on an acyclic graph every node is evaluated exactly once.
C20_BfsCompleteness ==
    Processed =>
       LET reachable == UNION { ReachableFrom(v) : v \in { u \in NodeIndices(nodes) :
                                                              in_degree(nodes, u) = 0 } }
       IN /\ Injective(PushOrder)
          /\ Range(PushOrder) = reachable
          /\ Injective(EvaluationOrder)
          /\ Range(EvaluationOrder) = reachable
          /\ evaluator.seen_bfs = reachable
          /\ Acyclic => Range(EvaluationOrder) = NodeIndices(nodes)

\* A node with two incoming links, reached over both, was processed.
C20_Witness ==
    /\ Processed
    /\ \E v \in NodeIndices(nodes) : in_degree(nodes, v) = 2
    /\ Len(EvaluationOrder) = Len(nodes)

\* C21: process writes the i-th scalar of the concatenated chunks into the
\* accumulator of the i-th Input node in insertion order, so every way of
\* splitting the same scalars into chunks leaves the same evaluator and the
\* same calculate result, and every other accumulator enters the propagation
\* at 0.
C21_InputLoading ==
    [][(cppn # NoCppn /\ ret'.op \in {"process", "calculate"}) =>
          LET flat   == ret'.arg
              loaded == assign_inputs(reset_signals(cppn[1]), flat, 0).cppn
          IN /\ Len(flat) = Len(InputNodes)
             /\ \A i \in 1 .. Len(flat) :
                   /\ loaded.incoming_signals[InputNodes[i] + 1] = flat[i]
                   /\ cppn'[1].incoming_signals[InputNodes[i] + 1] = flat[i]
             /\ \A v \in NodeIndices(nodes) :
                   kind_of(v) # "Input" => loaded.incoming_signals[v + 1] = 0
             /\ \A chunks \in Chunkings(flat) :
                   LET r == process(cppn[1], nodes, chunks)
                   IN /\ ~r.panicked
                      /\ r.cppn = cppn'[1]
                      /\ ret'.op = "calculate" => ret'.value = collect_outputs(r.cppn, nodes)]_vars

\* Two different scalars were loaded into two Input nodes of an evaluator
\* that also holds a propagated signal.
C21_Witness ==
    /\ Processed
    /\ Len(ret.arg) = 2
    /\ ret.arg[1] # ret.arg[2]
    /\ evaluator.incoming_signals[InputNodes[2] + 1] = ret.arg[2]
    /\ \E v \in NodeIndices(nodes) :
          kind_of(v) # "Input" /\ evaluator.incoming_signals[v + 1] # 0

\* C22: on every acyclic graph layout terminates: after finitely many passes
\* its loop makes a pass in which no rank changes, and the call returns (as
\* does group_layers, which calls it).
C22_LayoutTerminates ==
    (cppn # NoCppn /\ Acyclic) =>
        /\ ret.op # "hung"
        /\ layout(nodes).returned

\* layout returned on an acyclic chain of two links whose nodes are scanned
\* against the direction of the links: the first pass does not reach the final
\* ranks, the second does and the third changes nothing.
C22_Witness ==
    /\ ret.op = "layout"
    /\ Acyclic
    /\ \E a, b \in StoredLinks : a[1] = b[2] /\ a[1] > a[2] /\ b[1] > b[2]
    /\ layout_loop_once(nodes, initial_ranks(nodes), 0).ranks # Ranks

\* The nodes without incoming links.
Sources == { v \in NodeIndices(nodes) : in_degree(nodes, v) = 0 }

\* C23 as stated: the evaluator's start_nodes are exactly the nodes of
\* in-degree zero, and every one of them is an Input or a Bias node.
C23_StartNodes ==
    cppn # NoCppn =>
        /\ Range(evaluator.start_nodes) = Sources
        /\ \A v \in Range(evaluator.start_nodes) : kind_of(v) \in {"Input", "Bias"}

\* C23 amended: the evaluator's start_nodes are exactly the nodes of in-degree
\* zero, each once and in insertion order; every Input and every Bias node is
\* among them, and so is every Hidden or Output node without incoming links.
C23_StartNodesAmended ==
    cppn # NoCppn =>
        /\ Range(evaluator.start_nodes) = Sources
        /\ \A j, k \in DOMAIN evaluator.start_nodes :
              j < k => evaluator.start_nodes[j] < evaluator.start_nodes[k]
        /\ \A v \in NodeIndices(nodes) :
              kind_of(v) \in {"Input", "Bias"} => v \in Range(evaluator.start_nodes)
        /\ \A v \in NodeIndices(nodes) :
              (kind_of(v) \in {"Hidden", "Output"} /\ in_degree(nodes, v) = 0)
                 => v \in Range(evaluator.start_nodes)

\* An evaluator was built on a graph with a Hidden start node and a node that
\* has an incoming link.
C23_Witness ==
    /\ cppn # NoCppn
    /\ \E v \in Range(evaluator.start_nodes) : kind_of(v) = "Hidden"
    /\ \E v \in NodeIndices(nodes) : in_degree(nodes, v) > 0

RECURSIVE PassRanks(_)
PassRanks(k) ==
    IF k = 0 THEN initial_ranks(nodes)
    ELSE relax_nodes(nodes, [ranks |-> PassRanks(k - 1), changed |-> FALSE], 0).ranks

\* Pass k + 1 of layout's loop changes a rank.
PassChanges(k) == relax_nodes(nodes, [ranks |-> PassRanks(k), changed |-> FALSE], 0).changed

\* C25: process returns on every graph, also on one with a cycle, after
\* popping at most as many nodes as the graph has; layout on a graph with a
\* directed cycle changes a rank in every pass and does not return.
C25_TerminationOnCycles ==
    /\ Processed =>
          /\ evaluator.nodes_bfs = <<>>
          /\ Len(EvaluationOrder) <= Len(nodes)
          /\ evaluator = propagate_signals(Frontier0, nodes)
    /\ (ret.op \in {"layout", "hung"} /\ ~Acyclic) =>
          /\ ret = Hung("layout")
          /\ \A k \in 0 .. MaxPasses : PassChanges(k)

\* process returned on a graph with a cycle after evaluating the nodes of the
\* cycle.
C25_Witness ==
    /\ Processed
    /\ ~Acyclic
    /\ \E l \in StoredLinks :
          /\ l[1] \in ReachableFrom(l[2])
          /\ l[1] \in Range(EvaluationOrder)
          /\ l[2] \in Range(EvaluationOrder)

\* C26: on an evaluator bound to a graph without nodes group_layers panics
\* and returns nothing, while layout on the same graph returns the empty
\* vector; on a graph with nodes group_layers does not panic.
C26_EmptyGraph ==
    /\ (ret.op = "layout" /\ nodes = <<>>) => (ret.value = Some(<<>>) /\ ~panicked)
    /\ (ret.op = "group_layers" /\ nodes = <<>>) =>
          /\ panicked
          /\ ret.value = None
          /\ layout(nodes) = [ranks |-> <<>>, returned |-> TRUE]
    /\ (ret.op = "group_layers" /\ panicked) => nodes = <<>>

\* group_layers panicked on the evaluator of an empty graph.
C26_Witness ==
    /\ ret.op = "group_layers"
    /\ cppn = Some(cppn_new(<<>>))
    /\ nodes = <<>>
    /\ panicked

\* The dimension D of the positions placed in the substrate.
Dimension == Len(coords((CHOOSE n \in SubstrateNodes : TRUE).position))

\* The scalars a mode hands to the evaluator for one pair of nodes.
ScalarCount(mode) ==
    IF mode = "AbsolutePositionsAndDistance" THEN 2 * Dimension + 1 ELSE 2 * Dimension

\* Every layer link names two layers the substrate has.
LayersValid ==
    \A li \in DOMAIN substrate.layer_links :
       /\ substrate.layer_links[li].from_layer < Len(substrate.layers)
       /\ substrate.layer_links[li].to_layer < Len(substrate.layers)

\* The triples that pass the connectivity filters and the distance filter.
AdmittedTriples == { tr \in PassingTriples : TripleAdmitted(tr) }

\* C27: each_link makes one calculate call per link it hands over, on 2 D
\* scalars in the modes AbsolutePositions and RelativePositionOfTarget and on
\* 2 D + 1 in AbsolutePositionsAndDistance; when the evaluator's input_count()
\* is another number it panics in the first calculate call, at the first
\* admissible pair and before any callback; without an admissible pair it
\* makes no call and completes.
C27_OneCalculatePerLink ==
    ret.op = "each_link" =>
        LET mode     == ret.arg[1]
            calls    == ret.arg[2]
            mismatch == ScalarCount(mode) # input_count(evaluator)
        IN /\ \A k \in DOMAIN EmittedLinks :
                 LET link   == EmittedLinks[k]
                     inputs == inputs_to_cppn(mode, link.source, link.target, link.distance)
                 IN /\ Len(flatten(inputs)) = ScalarCount(mode)
                    /\ Len(flatten(inputs)) = input_count(evaluator)
                    /\ link.outputs = calculate(evaluator, nodes, inputs).value
           /\ ~mismatch => calls = Len(EmittedLinks)
           /\ mismatch => (EmittedLinks = <<>> /\ calls <= 1 /\ (calls = 1 => panicked))
           /\ LayersValid =>
                 IF AdmittedTriples = {}
                 THEN ~panicked /\ calls = 0 /\ EmittedLinks = <<>>
                 ELSE IF mismatch
                 THEN panicked /\ calls = 1
                 ELSE ~panicked /\ calls = Cardinality(AdmittedTriples)

\* An evaluator with five inputs was handed four scalars: each_link skipped a
\* pair that is not admissible and panicked in its first calculate call.
C27_Witness ==
    /\ ret.op = "each_link"
    /\ ret.arg = <<"AbsolutePositions", 1>>
    /\ input_count(evaluator) = 5
    /\ panicked
    /\ EmittedLinks = <<>>
    /\ LayersValid
    /\ <<0, 0, 0>> \notin AdmittedTriples

\* The layer link at position li (from 1) names a layer the substrate lacks.
NamesMissingLayer(li) ==
    \/ substrate.layer_links[li].from_layer >= Len(substrate.layers)
    \/ substrate.layer_links[li].to_layer >= Len(substrate.layers)

\* The layer link at position li (from 1) makes each_link index a layer the
\* substrate lacks: its from_layer, or its to_layer once a node of the
\* from_layer accepts outgoing links.
IndexesMissingLayer(li) ==
    LET layer_link == substrate.layer_links[li]
        sources    == LayerNodes(layer_link.from_layer)
    IN \/ layer_link.from_layer >= Len(substrate.layers)
       \/ /\ layer_link.to_layer >= Len(substrate.layers)
          /\ \E s \in DOMAIN sources : accept_outgoing_links(sources[s].node_type)

\* The links handed over are those of the admitted triples of the layer
\* links before position b (from 1), in order.
EmittedBefore(b) ==
    LET expected == LexSorted({ tr \in AdmittedTriples : tr[1] + 1 < b })
    IN /\ Len(EmittedLinks) = Len(expected)
       /\ \A k \in DOMAIN EmittedLinks :
             LET layer_link == substrate.layer_links[expected[k][1] + 1]
             IN /\ EmittedLinks[k].source_idx = <<layer_link.from_layer, expected[k][2]>>
                /\ EmittedLinks[k].target_idx = <<layer_link.to_layer, expected[k][3]>>

\* each_link was called in a mode whose scalars the evaluator takes.
EachLinkFits == ret.op = "each_link" /\ ScalarCount(ret.arg[1]) = input_count(evaluator)

\* C28 as stated: add_layer returns the number of layers present before the
\* call, add_layer_link stores any layer indices, and each_link panics at the
\* first layer link that names a missing layer, as from_layer or as to_layer,
\* after handing over the links of all earlier layer links.
C28_LayerIndices ==
    /\ ret.op = "add_layer" => ret.value = Some(Len(substrate.layers) - 1)
    /\ panicked => ret.op = "each_link"
    /\ (EachLinkFits /\ \E li \in DOMAIN substrate.layer_links : NamesMissingLayer(li)) =>
          LET b == CHOOSE li \in DOMAIN substrate.layer_links :
                      /\ NamesMissingLayer(li)
                      /\ \A lj \in 1 .. li - 1 : ~NamesMissingLayer(lj)
          IN panicked /\ EmittedBefore(b)

\* C28 amended: add_layer returns the number of layers present before the
\* call, add_layer_link stores any layer indices, and each_link panics at the
\* first layer link whose from_layer is missing, or whose to_layer is missing
\* while a node of its from_layer accepts outgoing links, after handing over
\* the links of all earlier layer links; a layer link with a missing to_layer
\* and no such node is passed over, and without a panicking layer link the
\* call completes.
C28_LayerIndicesAmended ==
    /\ ret.op = "add_layer" => ret.value = Some(Len(substrate.layers) - 1)
    /\ panicked => ret.op = "each_link"
    /\ EachLinkFits =>
          IF \E li \in DOMAIN substrate.layer_links : IndexesMissingLayer(li)
          THEN LET b == CHOOSE li \in DOMAIN substrate.layer_links :
                           /\ IndexesMissingLayer(li)
                           /\ \A lj \in 1 .. li - 1 : ~IndexesMissingLayer(lj)
               IN panicked /\ EmittedBefore(b)
          ELSE ~panicked /\ EmittedBefore(Len(substrate.layer_links) + 1)

\* each_link handed over the links of a first layer link and panicked at the
\* second, whose to_layer is missing.
C28_Witness ==
    /\ EachLinkFits
    /\ panicked
    /\ Len(substrate.layer_links) = 2
    /\ ~NamesMissingLayer(1)
    /\ substrate.layer_links[2].from_layer < Len(substrate.layers)
    /\ substrate.layer_links[2].to_layer >= Len(substrate.layers)
    /\ Len(EmittedLinks) >= 1

\* The positions (from 1) of the links handed over that pair node s of layer
\* l with itself.
SelfLinks(l, s) ==
    { k \in DOMAIN EmittedLinks :
         EmittedLinks[k].source_idx = <<l, s>> /\ EmittedLinks[k].target_idx = <<l, s>> }

\* C29: each_link leaves self-pairs in: for every layer link from a layer to
\* itself, every node of the layer that accepts outgoing and incoming links
\* is handed over as a link to itself, with distance 0, whether or not
\* max_distance is 0; the CPPN graph accepts no link from a node to itself.
C29_SelfPairs ==
    /\ EachLinkCompleted =>
          \A l \in 0 .. Len(substrate.layers) - 1 : \A s \in 0 .. Len(LayerNodes(l)) - 1 :
             LET n          == LayerNodes(l)[s + 1]
                 self_links == { li \in DOMAIN substrate.layer_links :
                                    /\ substrate.layer_links[li].from_layer = l
                                    /\ substrate.layer_links[li].to_layer = l }
             IN IF accept_outgoing_links(n.node_type) /\ accept_incoming_links(n.node_type)
                THEN /\ Cardinality(SelfLinks(l, s)) = Cardinality(self_links)
                     /\ \A k \in SelfLinks(l, s) :
                           /\ EmittedLinks[k].distance = 0
                           /\ EmittedLinks[k].source = n
                           /\ EmittedLinks[k].target = n
                ELSE SelfLinks(l, s) = {}
    /\ \A v \in NodeIndices(nodes) : valid_link(nodes, v, v) # "Ok"

\* A layer link from a layer to itself with max_distance 0 handed over a node
\* of that layer as a link to itself.
C29_Witness ==
    /\ EachLinkCompleted
    /\ \E li \in DOMAIN substrate.layer_links :
          /\ substrate.layer_links[li].from_layer = substrate.layer_links[li].to_layer
          /\ substrate.layer_links[li].max_distance = Some(0)
          /\ \E s \in 0 .. Len(LayerNodes(substrate.layer_links[li].from_layer)) - 1 :
                SelfLinks(substrate.layer_links[li].from_layer, s) # {}

====
